---------------------------- MODULE Spec2Model ----------------------------
(***************************************************************************)
(* A model of the detection-resistant fetch pipeline of the TradingView   *)
(* proxy server: the proxy selector (proxy_pool.py), the fingerprint       *)
(* generator (browser_config.py), the search executor with its retry loop *)
(* and the result normalizer (tradingview_proxy.py).                       *)
(*                                                                         *)
(* Text is modelled as follows.  A Python string is a TLA+ string; the     *)
(* canonical string of a location, "us-<state>-<city>", is the sequence of *)
(* its hyphen-separated parts, so that str.split("-") is the sequence      *)
(* itself.  A Python dict is a function whose DOMAIN is its key set.       *)
(***************************************************************************)
EXTENDS Integers, Sequences, FiniteSets, TLC

(***************************************************************************)
(* Bounds of the model.                                                    *)
(***************************************************************************)
\* The selector works on the first NumLocations entries of the catalog.
NumLocations == 3
\* Logged round-robin and randomized selections of the selector specification.
MaxNextCalls == 7
MaxRandomCalls == 7

(***************************************************************************)
(* Python's None.                                                          *)
(***************************************************************************)
None == "<None>"

\* str.lower() on the strings the model uses.
Lower(s) ==
    CASE s = "Spot" -> "spot"
      [] s = "SPOT" -> "spot"
      [] s = "Stock" -> "stock"
      [] s = "Crypto" -> "crypto"
      [] s = "CA" -> "ca"
      [] s = "NY" -> "ny"
      [] s = "Tx" -> "tx"
      [] OTHER -> s

(***************************************************************************)
(* proxy_pool.py                                                           *)
(***************************************************************************)
\* ProxyLocation.__init__: state and city are lower-cased.
ProxyLocation(state, city) == [state |-> Lower(state), city |-> Lower(city)]

\* ProxyLocation.__str__: "us-<state>-<city>", or "us-<state>" without a city.
LocationStr(loc) ==
    IF loc.city # None THEN <<"us", loc.state, loc.city>> ELSE <<"us", loc.state>>

\* ProxyPool.LOCATIONS
LOCATIONS ==
    << ProxyLocation("ca", "losangeles"), ProxyLocation("ca", "sanfrancisco"),
       ProxyLocation("ca", "sandiego"),   ProxyLocation("wa", "seattle"),
       ProxyLocation("or", "portland"),
       ProxyLocation("ny", "newyork"),    ProxyLocation("ma", "boston"),
       ProxyLocation("dc", "washington"), ProxyLocation("fl", "miami"),
       ProxyLocation("ga", "atlanta"),
       ProxyLocation("il", "chicago"),    ProxyLocation("tx", "austin"),
       ProxyLocation("tx", "dallas"),     ProxyLocation("co", "denver"),
       ProxyLocation("nv", "lasvegas"),
       ProxyLocation("az", "phoenix"),    ProxyLocation("pa", "philadelphia"),
       ProxyLocation("tx", "houston"),    ProxyLocation("oh", "columbus"),
       ProxyLocation("mi", "detroit") >>

\* The catalog the selector of the model holds: NumLocations entries of
\* LOCATIONS, every fourth one, so that it has regions the timezone table
\* maps (ca, fl, tx) and regions it does not (or, pa).
Catalog == [i \in 1..NumLocations |-> LOCATIONS[4 * (i - 1) + 1]]

CatalogStrs == {LocationStr(Catalog[i]) : i \in 1..Len(Catalog)}

VARIABLES
    current_index,      \* ProxyPool.current_index
    used_locations,     \* ProxyPool.used_locations
    pool_locations,     \* the list ProxyPool.LOCATIONS is bound to
    nextLog,            \* the locations get_next_proxy returned, in call order
    randLog,            \* the locations get_random_proxy returned, in call order
    clearLog,           \* the positions of randLog whose call cleared used_locations
    lastConf            \* the dict the last get_next_proxy or get_random_proxy returned

poolVars == <<current_index, used_locations, pool_locations>>
logVars == <<nextLog, randLog, clearLog, lastConf>>

\* A second OxyLabsProxy, with the ProxyPool its __post_init__ creates.
VARIABLES
    other_index,        \* current_index of the second instance's pool
    other_used,         \* used_locations of the second instance's pool
    otherNextLog,       \* the locations its get_next_proxy returned, in call order
    otherRandLog        \* the locations its get_random_proxy returned, in call order

otherVars == <<other_index, other_used, otherNextLog, otherRandLog>>

\* Mutant of NextIndex: the cursor does not wrap.
NextIndexNoWrap(i) == IF i + 1 < Len(Catalog) THEN i + 1 ELSE i

\* ProxyPool.get_next_location, the cursor after the call.
NextIndex(i) == (i + 1) % Len(Catalog)

\* Mutant of AvailableLocations: the recently-used set is not consulted.
AvailableLocationsUnfiltered(used) == Catalog

\* ProxyPool.get_random_location, line 62: the catalog minus the used ones.
AvailableLocations(used) ==
    SelectSeq(Catalog, LAMBDA loc : LocationStr(loc) \notin used)

\* Mutant of ClearsUsed: the set is cleared while one location is left.
ClearsUsedEarly(used) == Len(AvailableLocations(used)) <= 1

\* ProxyPool.get_random_location, lines 63-65: whether the call clears the set.
ClearsUsed(used) == AvailableLocations(used) = <<>>

\* Mutant of RandomCandidates: random.choice draws from the whole catalog.
RandomCandidatesWholeCatalog(used) == Catalog

\* Mutant of UsedAfterRandom: a full set is not cleared.
UsedAfterRandomNeverCleared(used, loc) == used \cup {LocationStr(loc)}

\* Mutant of RandomCandidates: a full set is not reset, random.choice is
\* given the empty list.
RandomCandidatesNoReset(used) == AvailableLocations(used)

\* ProxyPool.get_random_location, lines 62-67: what random.choice draws from.
RandomCandidates(used) ==
    IF ClearsUsed(used) THEN Catalog ELSE AvailableLocations(used)

\* ProxyPool.get_random_location, lines 63-68: the set after returning loc.
UsedAfterRandom(used, loc) ==
    (IF ClearsUsed(used) THEN {} ELSE used) \cup {LocationStr(loc)}

\* Mutant of LocationsAfterRandom: the choice consumes the entry it draws, and
\* after a reset the list it draws from is LOCATIONS itself (line 65).
LocationsAfterRandomConsumed(locations, used, loc) ==
    IF ClearsUsed(used)
    THEN SelectSeq(locations, LAMBDA l : l # loc)
    ELSE locations

\* ProxyPool.get_random_location, lines 62-67: the list LOCATIONS is bound to
\* after the call.  Line 62 builds a new list, line 65 binds `available` to
\* LOCATIONS itself, random.choice reads the list it is given.
LocationsAfterRandom(locations, used, loc) == locations

\* ProxyPool.get_next_location from the cursor `index`: the location it
\* returns and the cursor it leaves.
get_next_location(index) ==
    [loc |-> Catalog[index + 1], index |-> NextIndex(index)]

\* ProxyPool.get_random_location from the set `used`: the locations it can
\* return, each with the set the call leaves.
get_random_location(used) ==
    { [loc |-> RandomCandidates(used)[i],
       used |-> UsedAfterRandom(used, RandomCandidates(used)[i])] :
      i \in 1..Len(RandomCandidates(used)) }


(***************************************************************************)
(* JSON values.  A parsed value is tagged with its Python type: a list     *)
(* [t |-> "list", v |-> <<...>>], a dict [t |-> "dict", v |-> function],   *)
(* anything else [t |-> "other"].  A body that json cannot parse is        *)
(* [t |-> "invalid"].  Inside an item, a string value is a string, None is *)
(* JSON null and NonStr stands for a value that is not a string.           *)
(***************************************************************************)
JList(items) == [t |-> "list", v |-> items]
JDict(d) == [t |-> "dict", v |-> d]
JOther == [t |-> "other"]
JInvalid == [t |-> "invalid"]
\* A body that is text and no JSON.
TextBody(text) == [t |-> "invalid", text |-> text]
NonStr == "<7>"

\* isinstance(x, dict), isinstance(x, list), isinstance(s, str)
IsDict(x) == x.t = "dict"
IsList(x) == x.t = "list"
IsStr(s) == s \notin {NonStr, None}

\* str(x) for a scalar of an item
Str(x) == IF x = None THEN "None" ELSE x

\* dict.get(k, default)
Get(d, k, default) == IF k \in DOMAIN d THEN d[k] ELSE default

\* The dict d without the keys ks.
Without(d, ks) == [k \in DOMAIN d \ ks |-> d[k]]

\* d with d[k] = x (k added when missing): {**d, k: x}.
With(d, k, x) == [j \in DOMAIN d \cup {k} |-> IF j = k THEN x ELSE d[j]]

\* item.get("typespecs") or item.get("typeSpecs") or []
\* (tradingview_proxy.py lines 50 and 122; a missing key and an empty list
\* are both falsy).
TypeSpecs(item) ==
    IF "typespecs" \in DOMAIN item /\ item["typespecs"] # <<>>
    THEN item["typespecs"]
    ELSE IF "typeSpecs" \in DOMAIN item /\ item["typeSpecs"] # <<>>
         THEN item["typeSpecs"]
         ELSE <<>>

\* "crypto" in [s.lower() for s in ts if isinstance(s, str)]
HasCrypto(ts) == \E i \in 1..Len(ts) : IsStr(ts[i]) /\ Lower(ts[i]) = "crypto"

\* Mutant of keep: a spot item is kept whatever its markers are.
keepAnySpot(item) ==
    LET t == Lower(Str(Get(item, "type", "")))
        has_crypto == HasCrypto(TypeSpecs(item))
    IN IF t \in {"index", "forex", "stock"} THEN ~has_crypto
       ELSE t = "spot"

\* Mutant of keep: the category "crypto" is kept like a stock.
keepAlsoCrypto(item) ==
    LET t == Lower(Str(Get(item, "type", "")))
        has_crypto == HasCrypto(TypeSpecs(item))
    IN IF t \in {"index", "forex", "stock"} THEN ~has_crypto
       ELSE IF t = "spot" THEN has_crypto
       ELSE t = "crypto"

\* keep, tradingview_proxy.py lines 120-130
keep(item) ==
    LET t == Lower(Str(Get(item, "type", "")))
        has_crypto == HasCrypto(TypeSpecs(item))
    IN IF t \in {"index", "forex", "stock"} THEN ~has_crypto
       ELSE IF t = "spot" THEN has_crypto
       ELSE FALSE

\* [x for x in data if isinstance(x, dict) and keep(x)], lines 134 and 148
Filtered(items) == SelectSeq(items, LAMBDA x : IsDict(x) /\ keep(x.v))

\* Mutant of DedupStep: a symbol is never recorded as seen.
DedupStepForgetful(acc, item) ==
    LET sym == Get(item.v, "symbol", None)
    IN IF sym \notin {None, ""} /\ sym \notin acc.seen
       THEN [seen |-> acc.seen, deduped |-> Append(acc.deduped, item)]
       ELSE acc

\* One iteration of the dedup loop, lines 138-142 and 152-156.
DedupStep(acc, item) ==
    LET sym == Get(item.v, "symbol", None)
    IN IF sym \notin {None, ""} /\ sym \notin acc.seen
       THEN [seen |-> acc.seen \cup {sym}, deduped |-> Append(acc.deduped, item)]
       ELSE acc

RECURSIVE DedupLoop(_, _)
DedupLoop(acc, items) ==
    IF items = <<>> THEN acc
    ELSE DedupLoop(DedupStep(acc, Head(items)), Tail(items))

\* The dedup loop from seen = set(), deduped = [], lines 136-142 and 150-156.
Deduped(filtered) == DedupLoop([seen |-> {}, deduped |-> <<>>], filtered).deduped

\* A symbol that is a non-empty JSON list: it is truthy and not hashable, so
\* `sym not in seen` (lines 140 and 154) raises TypeError on it.
Unhashable == "<['A']>"

\* Whether the dedup loop raises on the filtered items.
DedupRaises(filtered) ==
    \E i \in 1..Len(filtered) : Get(filtered[i].v, "symbol", None) = Unhashable

\* Mutant of remove_keys: one source-identifier field is not stripped.
remove_keysWithoutSource2 == {"provider_id", "source_logoid", "source_id"}

remove_keys == {"provider_id", "source_logoid", "source2", "source_id"}

\* _strip_tv_fields, lines 41-55, on a dict item.
StripDict(item) ==
    LET cleaned == Without(item, remove_keys)
    IN IF Get(cleaned, "type", None) = "spot" /\ HasCrypto(TypeSpecs(cleaned))
       THEN With(cleaned, "type", "crypto")
       ELSE cleaned

\* _strip_tv_fields on any value: a non-dict is returned as it is.
strip_tv_fields(x) == IF ~IsDict(x) THEN x ELSE JDict(StripDict(x.v))

\* [_strip_tv_fields(it) for it in deduped], lines 144 and 157
DedupedClean(items) ==
    LET d == Deduped(Filtered(items))
    IN [i \in 1..Len(d) |-> strip_tv_fields(d[i])]

(***************************************************************************)
(* An upstream response: its status, its body (the parsed JSON value, or   *)
(* JInvalid) and its declared content type (None: no such header).  The    *)
(* bytes of the body are RawBytes(body); json.dumps(x).encode("utf-8") is  *)
(* JsonBytes(x).                                                           *)
(***************************************************************************)
Response(status, body, ctype) == [status |-> status, body |-> body, ctype |-> ctype]
RawBytes(body) == [enc |-> "raw", body |-> body]
JsonBytes(x) == [enc |-> "json", v |-> x]

\* resp.headers.get("content-type", "application/json"), line 115
DeclaredContentType(resp) ==
    IF resp.ctype = None THEN "application/json" ELSE resp.ctype

\* isinstance(data, dict) and "symbols" in data and
\* isinstance(data["symbols"], list), line 146
IsSymbolsMapping(data) ==
    IsDict(data) /\ "symbols" \in DOMAIN data.v /\ IsList(data.v["symbols"])

\* Mutant of NewPayload: only the symbols field is returned.
NewPayloadSymbolsOnly(data, deduped_clean) == "symbols" :> JList(deduped_clean)

\* {**data, "symbols": deduped_clean}, line 158
NewPayload(data, deduped_clean) == With(data, "symbols", JList(deduped_clean))

\* Whether lines 117-160 raise on the parsed value: the body is no JSON
\* (resp.json(), line 117), or the dedup loop meets an unhashable symbol.
NormalizationRaises(data) ==
    \/ data.t = "invalid"
    \/ IsList(data) /\ DedupRaises(Filtered(data.v))
    \/ IsSymbolsMapping(data) /\ DedupRaises(Filtered(data.v["symbols"].v))

\* Mutant of RawResult: the raw bytes are returned as JSON.
RawResultAsJson(resp) ==
    [content |-> RawBytes(resp.body), content_type |-> "application/json"]

\* return resp.content, content_type: lines 164 and 168
RawResult(resp) ==
    [content |-> RawBytes(resp.body), content_type |-> DeclaredContentType(resp)]

\* The 2xx branch, lines 113-168: the (content bytes, content type) returned.
HandleSuccess(resp) ==
    LET data == resp.body
    IN IF NormalizationRaises(data)
       THEN \* except Exception: lines 165-168
            RawResult(resp)
       ELSE IF IsList(data)
       THEN \* lines 132-145
            [content |-> JsonBytes(JList(DedupedClean(data.v))),
             content_type |-> "application/json"]
       ELSE IF IsSymbolsMapping(data)
       THEN \* lines 146-160
            [content |->
                 JsonBytes(JDict(NewPayload(data.v, DedupedClean(data.v["symbols"].v)))),
             content_type |-> "application/json"]
       ELSE \* lines 161-164
            RawResult(resp)

\* resp.json() of the bytes a search returned: json.loads(json.dumps(x)) is x
\* for a value x that came from JSON, and raw bytes parse as they did.
Parsed(content) == IF content.enc = "json" THEN content.v ELSE content.body

(***************************************************************************)
(* The inputs of the normalizer specification.                             *)
(***************************************************************************)
\* The longest item list of a payload.
MaxItems == 2

EmptyDict == [k \in {} |-> k]
Field(k, x) == IF x = None THEN EmptyDict ELSE k :> x
Markers(key, ts) == IF key = None THEN EmptyDict ELSE key :> ts

\* The category and sub-type part of an item.
TypeValues == {None, "stock", "index", "forex", "spot", "Spot", "fund"}
MarkerValues ==
    { Markers(None, <<>>),
      Markers("typespecs", <<"crypto">>),
      Markers("typespecs", <<"common">>),
      Markers("typeSpecs", <<NonStr, "Crypto">>) }

\* Items that differ in category and markers, all of symbol "A".
CategoryItems ==
    { JDict(Field("symbol", "A") @@ Field("type", t) @@ m) :
          t \in TypeValues, m \in MarkerValues }

\* Items that survive the filter and differ in symbol and provenance fields.
SymbolItems ==
    { JDict(Field("symbol", sym) @@ tm @@ prov) :
          sym \in {None, "", "A", "B"},
          tm \in { Field("type", "stock"),
                   Field("type", "spot") @@ Markers("typespecs", <<"crypto">>) },
          prov \in { EmptyDict,
                     Field("provider_id", "p1") @@ Field("source_logoid", "l1")
                         @@ Field("source2", "s2") @@ Field("source_id", "i1") } }

\* Items whose symbol is not hashable: one the filter keeps, one it discards.
UnhashableItems ==
    { JDict(Field("symbol", Unhashable) @@ Field("type", t)) : t \in {"stock", "fund"} }

\* Every item an upstream list may hold; JOther is an item that is no dict.
ItemUniverse == CategoryItems \cup SymbolItems \cup UnhashableItems \cup {JOther}

\* The lists of at most n items.
ItemLists(n) == UNION {[1..k -> ItemUniverse] : k \in 0..n}

\* The bodies of a 2xx response with lists of at most n items: a bare list,
\* a mapping with a symbols list (and one more key), a mapping whose symbols
\* is no list, a mapping without symbols, a scalar, a body that is no JSON.
Payloads(n) ==
    {JList(items) : items \in ItemLists(n)}
    \cup {JDict(("symbols" :> JList(items)) @@ ("symbols_remaining" :> "0")) :
              items \in ItemLists(n)}
    \cup { JDict("symbols" :> JOther), JDict("error" :> "none"), JOther, JInvalid }

ContentTypes == {None, "application/json", "text/html"}

\* The 2xx responses the normalizer is run on: every payload without a
\* declared content type, and the payloads of at most one item with each
\* declared content type.
NormInputs(n) ==
    {Response(200, b, None) : b \in Payloads(n)}
    \cup {Response(200, b, ct) : b \in Payloads(1), ct \in ContentTypes}

VARIABLES
    nResp,      \* the 2xx response handed to the normalizer
    nOut,       \* what the 2xx branch returned for it (NoResult: not yet run)
    nPrev       \* what it returned for the response nResp was made from

NoResult == [returned |-> FALSE]
normVars == <<nResp, nOut, nPrev>>

\* The normalizer specification's step: the 2xx branch runs on nResp.
ParseAndFilter ==
    /\ nOut = NoResult
    /\ nOut' = HandleSuccess(nResp)
    /\ UNCHANGED <<nResp, nPrev>>

\* What a normalization returned comes back as the body of a 2xx response
\* with the content type it was returned with, and the 2xx branch runs on it.
Renormalize ==
    /\ nOut # NoResult
    /\ nPrev = NoResult
    /\ nPrev' = nOut
    /\ nResp' = Response(200, Parsed(nOut.content), nOut.content_type)
    /\ nOut' = HandleSuccess(nResp')

(***************************************************************************)
(* The selector specification: get_next_proxy and get_random_proxy called  *)
(* in any order on one OxyLabsProxy, with what they returned logged.       *)
(***************************************************************************)
InitPool ==
    /\ current_index = 0
    /\ used_locations = {}
    /\ pool_locations = Catalog

\* OxyLabsProxy.__post_init__ and ProxyPool.__init__ for the second instance.
InitOther ==
    /\ other_index = 0
    /\ other_used = {}
    /\ otherNextLog = <<>>
    /\ otherRandLog = <<>>

\* No dict returned yet.
NoConf == [returned |-> FALSE]

InitLogs ==
    /\ nextLog = <<>>
    /\ randLog = <<>>
    /\ clearLog = {}
    /\ lastConf = NoConf

\* OxyLabsProxy._get_full_username, line 85: the string for a location.
FullUsername(username, loc) ==
    <<"customer", username, "residential", LocationStr(loc)>>

\* The location parameter left at its default, None (lines 81, 87).
NoLocation == [state |-> None, city |-> None]

\* Mutant of NotLocation: the location handed over counts as missing.
NotLocationAlways(location) == TRUE

\* `not location`, line 83: None is falsy; a ProxyLocation defines neither
\* __bool__ nor __len__ (lines 5-14), so it is truthy.
NotLocation(location) == location = NoLocation

\* OxyLabsProxy._get_full_username, lines 81-85, from the set `used`: the
\* strings it can return, each with the set the call leaves.  Without a
\* location it selects one by get_random_location.
get_full_username(username, location, used) ==
    IF NotLocation(location)
    THEN { [name |-> FullUsername(username, r.loc), used |-> r.used] :
           r \in get_random_location(used) }
    ELSE { [name |-> FullUsername(username, location), used |-> used] }

\* OxyLabsProxy.get_url, lines 87-90, from the set `used`.
get_url(username, password, location, used) ==
    { [url |-> <<"http", r.name, password, "pr.oxylabs.io:7777">>, used |-> r.used] :
      r \in get_full_username(username, location, used) }

\* The dict literal of get_next_proxy and get_random_proxy, lines 101-107 and
\* 112-118, for the selected loc from the set `used`: 'url' is evaluated
\* first, then 'username'; each dict comes with the set its building leaves.
BuildConf(username, password, loc, used) ==
    UNION { { [conf |-> [url |-> u.url,
                         username |-> n.name,
                         password |-> password,
                         location |-> LocationStr(loc),
                         type |-> "residential"],
               used |-> n.used] :
              n \in get_full_username(username, loc, u.used) } :
            u \in get_url(username, password, loc, used) }

\* OxyLabsProxy.get_next_proxy, lines 98-107
GetNextProxy ==
    /\ Len(nextLog) < MaxNextCalls
    /\ LET r == get_next_location(current_index)
       IN /\ current_index' = r.index
          /\ \E b \in BuildConf("mujtaba_zUooU", "Wethelegend_2", r.loc,
                                 used_locations) :
                 /\ used_locations' = b.used
                 /\ lastConf' = b.conf
                 /\ nextLog' = Append(nextLog, b.conf.location)
    /\ UNCHANGED <<pool_locations, randLog, clearLog>>

\* OxyLabsProxy.get_random_proxy, lines 109-118
GetRandomProxy ==
    /\ Len(randLog) < MaxRandomCalls
    /\ \E r \in get_random_location(used_locations) :
           /\ pool_locations' =
                  LocationsAfterRandom(pool_locations, used_locations, r.loc)
           /\ \E b \in BuildConf("mujtaba_zUooU", "Wethelegend_2", r.loc, r.used) :
                  /\ used_locations' = b.used
                  /\ lastConf' = b.conf
                  /\ randLog' = Append(randLog, b.conf.location)
    /\ clearLog' = IF ClearsUsed(used_locations)
                   THEN clearLog \cup {Len(randLog')}
                   ELSE clearLog
    /\ UNCHANGED <<current_index, nextLog>>

(***************************************************************************)
(* Two OxyLabsProxy instances: "proxy", the one above, and "other".         *)
(***************************************************************************)
\* The calls of each instance in the two-instance specification: enough for
\* a reset of its set and a wrap of its cursor.
MaxInstanceCalls == NumLocations + 1

\* Mutant of PoolOf: the cursor and the set are one state for all instances.
PoolOfShared(instance) == "proxy"

\* OxyLabsProxy.__post_init__, lines 77-79, and ProxyPool.__init__, lines
\* 50-52: whose cursor and set the operations of an instance work on.  Each
\* instance creates a ProxyPool, and current_index and used_locations are
\* attributes of that object.
PoolOf(instance) == instance

\* self.current_index and self.used_locations of the pool p.
IndexOf(p) == IF p = "proxy" THEN current_index ELSE other_index
UsedOf(p) == IF p = "proxy" THEN used_locations ELSE other_used

\* The pool p is left with the cursor i and the set u, the other pool as it
\* was.
SetPool(p, i, u) ==
    IF p = "proxy"
    THEN /\ current_index' = i
         /\ used_locations' = u
         /\ UNCHANGED <<other_index, other_used>>
    ELSE /\ other_index' = i
         /\ other_used' = u
         /\ UNCHANGED <<current_index, used_locations>>

\* get_next_proxy of the second instance, lines 98-107
OtherGetNextProxy ==
    /\ Len(otherNextLog) + Len(otherRandLog) < MaxInstanceCalls
    /\ LET p == PoolOf("other")
           r == get_next_location(IndexOf(p))
       IN \E b \in BuildConf("mujtaba_zUooU", "Wethelegend_2", r.loc, UsedOf(p)) :
              /\ SetPool(p, r.index, b.used)
              /\ otherNextLog' = Append(otherNextLog, b.conf.location)
    /\ UNCHANGED <<pool_locations, otherRandLog, logVars>>

\* get_random_proxy of the second instance, lines 109-118
OtherGetRandomProxy ==
    /\ Len(otherNextLog) + Len(otherRandLog) < MaxInstanceCalls
    /\ LET p == PoolOf("other")
       IN \E r \in get_random_location(UsedOf(p)) :
              /\ pool_locations' =
                     LocationsAfterRandom(pool_locations, UsedOf(p), r.loc)
              /\ \E b \in BuildConf("mujtaba_zUooU", "Wethelegend_2", r.loc,
                                     r.used) :
                     /\ SetPool(p, IndexOf(p), b.used)
                     /\ otherRandLog' = Append(otherRandLog, b.conf.location)
    /\ UNCHANGED <<otherNextLog, logVars>>

(***************************************************************************)
(* tradingview_proxy.py: tradingview_symbol_search.  Each call of the      *)
(* coroutine is a search; the searches share the one OxyLabsProxy of the   *)
(* server (tradingview_main.py line 21).  A search is suspended only in    *)
(* client.get (pc = "await") and in asyncio.sleep (pc = "sleep").          *)
(***************************************************************************)
\* The largest attempts argument of a call.
MaxAttempts == 3

Searches == {"s1"}

\* The searches of the server: the route runs a search per request it is
\* handling.  Searches are the ones the executor specification runs.
AllSearches == {"s1", "s2"}

\* random.uniform(0.25, 0.8), lines 173 and 180, in milliseconds.
JitterMinMs == 250
JitterMaxMs == 800
JitterSamples == {JitterMinMs, JitterMaxMs}

\* The params arguments of the calls.
ParamInputs ==
    { "text" :> "btc",
      ("text" :> "btc") @@ ("lang" :> "fr") @@ ("limit" :> "10"),
      ("text" :> "btc") @@ ("limit" :> "10") @@ ("exchange" :> "NASDAQ") }

\* dict.setdefault(k, x)
SetDefault(d, k, x) == IF k \in DOMAIN d THEN d ELSE With(d, k, x)

\* Lines 66-68: the copy of params with the defaults.
WithDefaults(p) == SetDefault(SetDefault(p, "lang", "en"), "limit", "50")

\* Mutant of CallerParams: the defaults are set in the caller's dict.
CallerParamsAliased(p) == WithDefaults(p)

\* The caller's dict after lines 66-68: line 66 rebinds params to a copy,
\* so the defaults are not set in it.
CallerParams(p) == p

\* _parse_state_from_location, lines 22-28
parse_state_from_location(location) ==
    IF Len(location) >= 2 THEN location[2] ELSE "ca"

\* BrowserFingerprint.TIMEZONE_MAP, browser_config.py lines 42-52
TIMEZONE_MAP ==
    [ny |-> "America/New_York", nj |-> "America/New_York",
     ca |-> "America/Los_Angeles", wa |-> "America/Los_Angeles",
     tx |-> "America/Chicago", fl |-> "America/New_York",
     il |-> "America/Chicago", az |-> "America/Phoenix",
     ga |-> "America/New_York"]

\* Mutant of Timezone: the region is looked up as it is written.
TimezoneCaseSensitive(state) == Get(TIMEZONE_MAP, state, "America/Chicago")

\* BrowserFingerprint.generate, line 96: the timezone of a region.
Timezone(state) == Get(TIMEZONE_MAP, Lower(state), "America/Chicago")

(***************************************************************************)
(* browser_config.py: BrowserFingerprint.generate.  The random choices of  *)
(* a generation and the season of its datetime.now() are a draw d.  A      *)
(* string the code builds by formatting is the sequence of its parts.      *)
(***************************************************************************)
\* browser_config.ProxyLocation, lines 7-10
BFProxyLocation(state) == [state |-> state, country |-> "US"]

\* BrowserFingerprint.RESOLUTIONS, as the dicts line 88 makes of them
RESOLUTIONS ==
    << [width |-> 1920, height |-> 1080], [width |-> 1366, height |-> 768],
       [width |-> 1536, height |-> 864],  [width |-> 1440, height |-> 900],
       [width |-> 1280, height |-> 720],  [width |-> 1600, height |-> 900] >>

CHROME_VERSIONS ==
    <<"120.0.0.0", "119.0.0.0", "118.0.0.0", "117.0.0.0", "116.0.0.0", "115.0.0.0">>

OS_CONFIGS ==
    << [os |-> "Windows", versions |-> <<"10.0", "11.0">>, platform |-> "Win64; x64"],
       [os |-> "Macintosh", versions |-> <<"10_15_7", "11_0_0", "12_0_0", "13_0_0">>,
        platform |-> "Intel Mac OS X"] >>

\* now.strftime('%z') for datetime.now(pytz.timezone(timezone)), lines
\* 102-103: the offset of the zone in winter, or in summer (dst).
TimezoneOffset(timezone, dst) ==
    CASE timezone = "America/New_York" -> IF dst THEN "-0400" ELSE "-0500"
      [] timezone = "America/Chicago" -> IF dst THEN "-0500" ELSE "-0600"
      [] timezone = "America/Los_Angeles" -> IF dst THEN "-0700" ELSE "-0800"
      [] timezone = "America/Phoenix" -> "-0700"

\* _get_geographic_viewport, lines 68-90: the list random.choice draws from.
ViewportChoices(location) ==
    IF Lower(location.state) \in {"ny", "nj", "fl", "ga"}
    THEN << [width |-> 1366, height |-> 768], [width |-> 1440, height |-> 900],
            [width |-> 1280, height |-> 720] >>
    ELSE IF Lower(location.state) \in {"ca", "wa"}
    THEN << [width |-> 1920, height |-> 1080], [width |-> 1536, height |-> 864],
            [width |-> 1600, height |-> 900] >>
    ELSE RESOLUTIONS

\* The user agent, lines 111-116.
UserAgent(os_config, os_version, chrome_version) ==
    (IF os_config.os = "Windows"
     THEN <<"Mozilla/5.0 (", os_config.os, " NT ", os_version, "; ",
            os_config.platform, ") ">>
     ELSE <<"Mozilla/5.0 (", os_config.os, "; ", os_config.platform, " ",
            os_version, ") ">>)
    \o <<"AppleWebKit/537.36 (KHTML, like Gecko) Chrome/", chrome_version,
         " Safari/537.36">>

\* f"{1.0-i*0.1:.1f}" for i = 0..3, line 124
QValue(i) == <<"1.0", "0.9", "0.8", "0.7">>[i + 1]

\* The Accept-Language value of the shuffled languages, line 124: the
\* comma-separated parts, each a language and its q value.
AcceptLanguage(languages) ==
    [i \in 1..Len(languages) |-> <<languages[i], ";q=", QValue(i - 1)>>]

\* BrowserFingerprint.generate, lines 93-134 (the page scripts left out),
\* with the draw d.
Generate(proxy_location, d) ==
    LET timezone == Timezone(proxy_location.state)
        timezone_offset == TimezoneOffset(timezone, d.dst)
    IN [user_agent |-> UserAgent(d.os_config, d.os_version, d.chrome_version),
        viewport |-> d.viewport,
        headers |-> ("accept-language" :> AcceptLanguage(d.languages))
                    @@ ("sec-ch-ua-timezone" :> timezone)
                    @@ ("cookie" :> <<"timezone_offset=", timezone_offset, ";">>),
        timezone_id |-> timezone]

\* Orders random.shuffle can leave the languages in, line 123.
LanguageOrders ==
    { <<"en-US", "en-GB", "en-CA", "en">>, <<"en", "en-CA", "en-GB", "en-US">>,
      <<"en-CA", "en-US", "en", "en-GB">> }

\* Every draw of a generation for a location, up to the language order.
Draws(location) ==
    UNION { { [os_config |-> OS_CONFIGS[c], os_version |-> OS_CONFIGS[c].versions[v],
               chrome_version |-> CHROME_VERSIONS[ch],
               viewport |-> ViewportChoices(location)[vp],
               languages |-> l, dst |-> dst] :
                  v \in 1..Len(OS_CONFIGS[c].versions),
                  ch \in 1..Len(CHROME_VERSIONS),
                  vp \in 1..Len(ViewportChoices(location)),
                  l \in LanguageOrders, dst \in BOOLEAN } :
            c \in 1..Len(OS_CONFIGS) }

\* The regions the generator is run on: the mapped ones, three written in
\* other case, two the table does not map.
Regions ==
    {"ny", "nj", "ca", "wa", "tx", "fl", "il", "az", "ga", "CA", "NY", "Tx", "or", "zz"}

VARIABLES
    fpState,    \* the region handed to the generator
    fpOut,      \* the fingerprint generated for it (NoFingerprint: not yet)
    fpHeaders   \* the request headers built from it (NoHeaders: not yet)

NoFingerprint == [generated |-> FALSE]
NoHeaders == [built |-> FALSE]
fpVars == <<fpState, fpOut, fpHeaders>>

InitFp ==
    /\ fpState = "ca"
    /\ fpOut = NoFingerprint
    /\ fpHeaders = NoHeaders

\* The generator specification's step: a fingerprint is generated.
GenerateFingerprint ==
    /\ fpOut = NoFingerprint
    /\ \E d \in Draws(BFProxyLocation(fpState)) :
           fpOut' = Generate(BFProxyLocation(fpState), d)
    /\ UNCHANGED <<fpState, fpHeaders>>

(***************************************************************************)
(* What the network does to an attempt.  An exception is named by its      *)
(* class and its message; base is "Exception" for a subclass of Exception. *)
(***************************************************************************)
Exc(cls, msg) == [kind |-> "exception", cls |-> cls, base |-> "Exception", msg |-> msg]
Resp(r) == [kind |-> "response", resp |-> r]
NoOutcome == [kind |-> "none"]

\* asyncio.CancelledError, raised in a suspended search that is cancelled;
\* it is a BaseException and no Exception.
CancelledError ==
    [kind |-> "exception", cls |-> "asyncio.CancelledError", base |-> "BaseException",
     msg |-> ""]

\* Raised by lines 110-111, before the request is sent.
SetupExceptions == {Exc("ssl.SSLError", "cannot load CA bundle")}

\* Raised by client.get, line 112.
TransportExceptions ==
    {Exc("httpx.ConnectError", "proxy refused"), Exc("httpx.ReadTimeout", "timed out")}

LongText == "<a page of more than 200 characters>"
ErrorTexts == {"Forbidden", LongText}

\* resp.text[:200]
First200(text) ==
    IF text = LongText THEN "<its first 200 characters>" ELSE text

\* The bodies of the 2xx responses of the executor specification.
SearchBodies ==
    { JInvalid,
      JDict("error" :> "none"),
      JList(<< JDict(("symbol" :> "BTC") @@ ("type" :> "spot")
                       @@ ("typespecs" :> <<"crypto">>)),
               JDict(("symbol" :> "BTC") @@ ("type" :> "stock")) >>),
      JDict("symbols" :> JList(<<JDict(("symbol" :> "AAPL") @@ ("type" :> "stock")
                                         @@ ("provider_id" :> "p1"))>>)),
      JOther,
      JDict("symbols" :> JOther),
      JList(<<JDict(("symbol" :> Unhashable) @@ ("type" :> "stock"))>>) }

\* The responses client.get can return.
UpstreamResponses ==
    {Response(st, b, ct) : st \in {200, 299}, b \in SearchBodies, ct \in {None, "text/html"}}
    \cup {Response(st, TextBody(t), "text/html") : st \in {300, 500}, t \in ErrorTexts}

VARIABLES
    pc,             \* where each search is
    attempts,       \* the attempts argument
    caller_params,  \* the dict the caller passed: as passed, and as it is now
    params,         \* the local params (after line 68)
    iter,           \* the iterations of the for loop begun
    last_error,     \* the local last_error
    request,        \* the request of the current attempt
    outcome,        \* what the current attempt met: a response or an exception
    jitter,         \* the argument of the asyncio.sleep under way, in ms
    result,         \* the pair returned
    error,          \* the exception that left the coroutine
    nRequests,      \* upstream requests sent by this call
    nFailed,        \* attempts of this call that ended as a Retryable Failure
    nSetupFailed,   \* of these, the ones that failed before the request
    nDelays         \* jitter sleeps begun by this call

searchVars ==
    <<pc, attempts, caller_params, params, iter, last_error, request, outcome, jitter, result,
      error, nRequests, nFailed, nSetupFailed, nDelays>>

vars == <<poolVars, logVars, normVars, fpVars, searchVars, otherVars>>

\* last_error = None, line 63
NoError == [kind |-> "none"]
NoCall == [passed |-> EmptyDict, now |-> EmptyDict]
NoRequest == [sent |-> FALSE]
NoException == [kind |-> "none"]

\* f"{resp.status_code} {resp.text[:200]}", line 170
HttpDiagnostic(resp) ==
    [kind |-> "status", status |-> resp.status,
     text |-> First200(Get(resp.body, "text", ""))]

\* str(e), line 178
ExcDiagnostic(e) == [kind |-> "message", msg |-> e.msg]

\* TradingViewProxyError(f"TradingView search failed after retries: {last_error}")
TradingViewProxyError(diag) ==
    [kind |-> "exception", cls |-> "TradingViewProxyError", base |-> "Exception",
     prefix |-> "TradingView search failed after retries: ", diag |-> diag]

\* Mutant of LoopContinues: one iteration too many.
LoopContinuesOffByOne(i, n) == i <= n

\* for _ in range(attempts), line 70: whether another iteration begins.
LoopContinues(i, n) == i < n

\* Mutant of IsSuccess: only 200 counts as success.
IsSuccessOnly200(status) == status = 200

\* 200 <= resp.status_code < 300, line 113
IsSuccess(status) == 200 <= status /\ status < 300

\* Mutant of CaughtByExcept: a bare except, which catches every exception.
CaughtByBareExcept(e) == TRUE

\* Mutant of CaughtByExcept: only httpx's errors are caught.
CaughtOnlyHttpx(e) == e.cls \in {"httpx.ConnectError", "httpx.ReadTimeout"}

\* except Exception, line 177
CaughtByExcept(e) == e.base = "Exception"

\* Mutant of NewLastError: the first diagnostic is kept.
KeepFirstError(prev, diag) == IF prev = NoError THEN diag ELSE prev

\* The assignments to last_error, lines 170 and 178.
NewLastError(prev, diag) == diag

InitNorm ==
    /\ nResp = Response(200, JInvalid, None)
    /\ nOut = NoResult
    /\ nPrev = NoResult

InitSearch ==
    /\ pc = [s \in AllSearches |-> "idle"]
    /\ attempts = [s \in AllSearches |-> 0]
    /\ caller_params = [s \in AllSearches |-> NoCall]
    /\ params = [s \in AllSearches |-> EmptyDict]
    /\ iter = [s \in AllSearches |-> 0]
    /\ last_error = [s \in AllSearches |-> NoError]
    /\ request = [s \in AllSearches |-> NoRequest]
    /\ outcome = [s \in AllSearches |-> NoOutcome]
    /\ jitter = [s \in AllSearches |-> 0]
    /\ result = [s \in AllSearches |-> NoResult]
    /\ error = [s \in AllSearches |-> NoException]
    /\ nRequests = [s \in AllSearches |-> 0]
    /\ nFailed = [s \in AllSearches |-> 0]
    /\ nSetupFailed = [s \in AllSearches |-> 0]
    /\ nDelays = [s \in AllSearches |-> 0]

\* A call of tradingview_symbol_search(proxy, p, k), lines 58-68.
Call(s) ==
    /\ pc[s] = "idle"
    /\ \E k \in 0..MaxAttempts, p \in ParamInputs :
           /\ attempts' = [attempts EXCEPT ![s] = k]
           /\ caller_params' =
                  [caller_params EXCEPT ![s] = [passed |-> p, now |-> CallerParams(p)]]
           /\ params' = [params EXCEPT ![s] = WithDefaults(p)]
    /\ pc' = [pc EXCEPT ![s] = "loop"]
    /\ iter' = [iter EXCEPT ![s] = 0]
    /\ last_error' = [last_error EXCEPT ![s] = NoError]
    /\ request' = [request EXCEPT ![s] = NoRequest]
    /\ outcome' = [outcome EXCEPT ![s] = NoOutcome]
    /\ jitter' = [jitter EXCEPT ![s] = 0]
    /\ result' = [result EXCEPT ![s] = NoResult]
    /\ error' = [error EXCEPT ![s] = NoException]
    /\ nRequests' = [nRequests EXCEPT ![s] = 0]
    /\ nFailed' = [nFailed EXCEPT ![s] = 0]
    /\ nSetupFailed' = [nSetupFailed EXCEPT ![s] = 0]
    /\ nDelays' = [nDelays EXCEPT ![s] = 0]
    /\ UNCHANGED <<poolVars, logVars, normVars, fpVars, otherVars>>

\* The except clause, lines 177-183, on exception e; an exception it does not
\* catch leaves the coroutine.
OnException(s, e) ==
    IF CaughtByExcept(e)
    THEN /\ last_error' = [last_error EXCEPT ![s] = NewLastError(@, ExcDiagnostic(e))]
         /\ \E j \in JitterSamples : jitter' = [jitter EXCEPT ![s] = j]
         /\ nFailed' = [nFailed EXCEPT ![s] = @ + 1]
         /\ nDelays' = [nDelays EXCEPT ![s] = @ + 1]
         /\ pc' = [pc EXCEPT ![s] = "sleep"]
         /\ UNCHANGED <<result, error>>
    ELSE /\ error' = [error EXCEPT ![s] = e]
         /\ pc' = [pc EXCEPT ![s] = "raised"]
         /\ UNCHANGED <<last_error, jitter, nFailed, nDelays, result>>

\* `word in ua`, line 33, for a user agent given as its parts: of the parts
\* UserAgent puts together, the word can only be a whole part (the os).
InUa(word, ua) == \E i \in 1..Len(ua) : ua[i] = word

\* The digits \d+ matches at the start of a text ("" when it starts with none).
LeadingDigits(text) ==
    CASE text = "120.0.0.0" -> "120"
      [] text = "119.0.0.0" -> "119"
      [] text = "118.0.0.0" -> "118"
      [] text = "117.0.0.0" -> "117"
      [] text = "116.0.0.0" -> "116"
      [] text = "115.0.0.0" -> "115"
      [] OTHER -> ""

\* re.search(r"Chrome/(\d+)", ua), line 34: the positions of the parts that
\* end with "Chrome/" and are followed by a part that starts with digits.
ChromeMatches(ua) ==
    { i \in 1..(Len(ua) - 1) :
        /\ ua[i] = "AppleWebKit/537.36 (KHTML, like Gecko) Chrome/"
        /\ LeadingDigits(ua[i + 1]) # "" }

\* Mutant of ChromeMajor: the regular expression never matches.
ChromeMajorFallback(ua) == "120"

\* Lines 34-35: group 1 of the first match, or "120" without a match.
ChromeMajor(ua) ==
    IF ChromeMatches(ua) # {}
    THEN LeadingDigits(ua[(CHOOSE i \in ChromeMatches(ua) :
                               \A j \in ChromeMatches(ua) : i <= j) + 1])
    ELSE "120"

\* _infer_client_hints_from_ua, lines 31-38
infer_client_hints_from_ua(ua) ==
    [platform |-> IF InUa("Windows", ua) THEN "\"Windows\""
                  ELSE IF InUa("Macintosh", ua) THEN "\"macOS\"" ELSE "\"Linux\"",
     sec_ch_ua |-> <<"\"Chromium\";v=\"", ChromeMajor(ua),
                     "\", \"Google Chrome\";v=\"", ChromeMajor(ua),
                     "\", \"Not:A-Brand\";v=\"99\"">>,
     mobile |-> "?0"]

\* The headers of the request that come from the fingerprint, lines 78-108
\* (the literal ones left out).
Headers(fp) ==
    ("User-Agent" :> fp.user_agent)
    @@ ("Accept-Language" :> Get(fp.headers, "accept-language", "en-US,en;q=0.9"))
    @@ ("sec-ch-ua" :> infer_client_hints_from_ua(fp.user_agent).sec_ch_ua)
    @@ ("sec-ch-ua-mobile" :> infer_client_hints_from_ua(fp.user_agent).mobile)
    @@ ("sec-ch-ua-platform" :> infer_client_hints_from_ua(fp.user_agent).platform)
    @@ (IF "cookie" \in DOMAIN fp.headers
        THEN "Cookie" :> fp.headers["cookie"] ELSE EmptyDict)
    @@ (IF "sec-ch-ua-timezone" \in DOMAIN fp.headers
        THEN "sec-ch-ua-timezone" :> fp.headers["sec-ch-ua-timezone"] ELSE EmptyDict)

\* The generator specification's second step, lines 78-108: the headers of
\* the request are built from the fingerprint generated.
BuildHeaders ==
    /\ fpOut # NoFingerprint
    /\ fpHeaders = NoHeaders
    /\ fpHeaders' = Headers(fpOut)
    /\ UNCHANGED <<fpState, fpOut>>

\* The request of an attempt, lines 72-112: routed through the proxy of conf,
\* with the headers of the fingerprint fp and the search's params.
Request(conf, fp, p) ==
    [sent |-> TRUE,
     proxy |-> conf.url,
     location |-> conf.location,
     headers |-> Headers(fp),
     params |-> p]

\* The draws of the fingerprints of the executor specification: two of
\* Draws(location).
AttemptDraws(location) ==
    { [os_config |-> OS_CONFIGS[1], os_version |-> "10.0",
       chrome_version |-> "120.0.0.0", viewport |-> ViewportChoices(location)[1],
       languages |-> <<"en-US", "en-GB", "en-CA", "en">>, dst |-> FALSE],
      [os_config |-> OS_CONFIGS[2], os_version |-> "13_0_0",
       chrome_version |-> "115.0.0.0", viewport |-> ViewportChoices(location)[3],
       languages |-> <<"en", "en-CA", "en-GB", "en-US">>, dst |-> TRUE] }

\* Mutant of FingerprintLocation: the fingerprint is generated for the
\* first component of the location string.
FingerprintLocationFirstPart(location) == BFProxyLocation(location[1])

\* Lines 73-77: the location the fingerprint of an attempt is generated for.
FingerprintLocation(location) ==
    BFProxyLocation(parse_state_from_location(location))

\* An iteration of the loop up to its request, lines 70-112: the proxy is
\* selected and the request is sent, or lines 110-111 raise.
BeginAttempt(s) ==
    /\ pc[s] = "loop"
    /\ LoopContinues(iter[s], attempts[s])
    /\ iter' = [iter EXCEPT ![s] = @ + 1]
    /\ \E r \in get_random_location(used_locations) :
           /\ pool_locations' =
                  LocationsAfterRandom(pool_locations, used_locations, r.loc)
           /\ \E b \in BuildConf("mujtaba_zUooU", "Wethelegend_2", r.loc, r.used) :
                  /\ used_locations' = b.used
                  /\ LET location == FingerprintLocation(b.conf.location)
                     IN \E d \in AttemptDraws(location) :
                            request' = [request EXCEPT ![s] =
                                Request(b.conf, Generate(location, d), params[s])]
    /\ \/ /\ pc' = [pc EXCEPT ![s] = "await"]
          /\ nRequests' = [nRequests EXCEPT ![s] = @ + 1]
          /\ outcome' = [outcome EXCEPT ![s] = NoOutcome]
          /\ UNCHANGED <<last_error, jitter, result, error, nFailed, nSetupFailed,
                         nDelays>>
       \/ \E e \in SetupExceptions :
              /\ outcome' = [outcome EXCEPT ![s] = e]
              /\ nSetupFailed' = [nSetupFailed EXCEPT ![s] = @ + 1]
              /\ OnException(s, e)
              /\ UNCHANGED nRequests
    /\ UNCHANGED <<current_index, attempts, caller_params, params, logVars,
                   normVars, fpVars, otherVars>>

\* client.get returns resp, lines 112-176.
OnResponse(s, resp) ==
    IF IsSuccess(resp.status)
    THEN /\ result' = [result EXCEPT ![s] = HandleSuccess(resp)]
         /\ pc' = [pc EXCEPT ![s] = "returned"]
         /\ UNCHANGED <<last_error, jitter, error, nFailed, nDelays>>
    ELSE /\ last_error' = [last_error EXCEPT ![s] = NewLastError(@, HttpDiagnostic(resp))]
         /\ \E j \in JitterSamples : jitter' = [jitter EXCEPT ![s] = j]
         /\ nFailed' = [nFailed EXCEPT ![s] = @ + 1]
         /\ nDelays' = [nDelays EXCEPT ![s] = @ + 1]
         /\ pc' = [pc EXCEPT ![s] = "sleep"]
         /\ UNCHANGED <<result, error>>

\* The awaited client.get ends: it returns a response or raises.
Respond(s) ==
    /\ pc[s] = "await"
    /\ \/ \E resp \in UpstreamResponses :
              /\ outcome' = [outcome EXCEPT ![s] = Resp(resp)]
              /\ OnResponse(s, resp)
       \/ \E e \in TransportExceptions :
              /\ outcome' = [outcome EXCEPT ![s] = e]
              /\ OnException(s, e)
    /\ UNCHANGED <<attempts, caller_params, params, iter, request, nRequests, nSetupFailed,
                   poolVars, logVars, normVars, fpVars, otherVars>>

\* asyncio.sleep(jitter) ends, lines 175-176 and 182-183: continue.
Wake(s) ==
    /\ pc[s] = "sleep"
    /\ pc' = [pc EXCEPT ![s] = "loop"]
    /\ jitter' = [jitter EXCEPT ![s] = 0]
    /\ UNCHANGED <<attempts, caller_params, params, iter, last_error, request, outcome, result,
                   error, nRequests, nFailed, nSetupFailed, nDelays,
                   poolVars, logVars, normVars, fpVars, otherVars>>

\* The task of a suspended search is cancelled: CancelledError is raised at
\* its await (line 112, or the sleeps of lines 175 and 182).
Cancel(s) ==
    /\ pc[s] \in {"await", "sleep"}
    /\ outcome' = [outcome EXCEPT ![s] = CancelledError]
    /\ OnException(s, CancelledError)
    /\ UNCHANGED <<attempts, caller_params, params, iter, request, nRequests,
                   nSetupFailed, poolVars, logVars, normVars, fpVars, otherVars>>

\* The loop is over, line 185.
RaiseExhausted(s) ==
    /\ pc[s] = "loop"
    /\ ~LoopContinues(iter[s], attempts[s])
    /\ error' = [error EXCEPT ![s] = TradingViewProxyError(last_error[s])]
    /\ pc' = [pc EXCEPT ![s] = "raised"]
    /\ UNCHANGED <<attempts, caller_params, params, iter, last_error, request, outcome, jitter,
                   result, nRequests, nFailed, nSetupFailed, nDelays,
                   poolVars, logVars, normVars, fpVars, otherVars>>

\* The coroutine has ended and its caller has taken what it returned or
\* raised: its place is free for the server's next call of the search
\* (tradingview_main.py line 50), on the same OxyLabsProxy.
Done(s) ==
    /\ pc[s] \in {"returned", "raised"}
    /\ pc' = [pc EXCEPT ![s] = "idle"]
    /\ attempts' = [attempts EXCEPT ![s] = 0]
    /\ caller_params' = [caller_params EXCEPT ![s] = NoCall]
    /\ params' = [params EXCEPT ![s] = EmptyDict]
    /\ iter' = [iter EXCEPT ![s] = 0]
    /\ last_error' = [last_error EXCEPT ![s] = NoError]
    /\ request' = [request EXCEPT ![s] = NoRequest]
    /\ outcome' = [outcome EXCEPT ![s] = NoOutcome]
    /\ jitter' = [jitter EXCEPT ![s] = 0]
    /\ result' = [result EXCEPT ![s] = NoResult]
    /\ error' = [error EXCEPT ![s] = NoException]
    /\ nRequests' = [nRequests EXCEPT ![s] = 0]
    /\ nFailed' = [nFailed EXCEPT ![s] = 0]
    /\ nSetupFailed' = [nSetupFailed EXCEPT ![s] = 0]
    /\ nDelays' = [nDelays EXCEPT ![s] = 0]
    /\ UNCHANGED <<poolVars, logVars, normVars, fpVars, otherVars>>

(***************************************************************************)
(* The specifications.                                                     *)
(***************************************************************************)
\* The search executor on the shared selector.
Init == InitPool /\ InitLogs /\ InitOther /\ InitNorm /\ InitFp /\ InitSearch

Next ==
    \E s \in Searches :
        \/ Call(s)
        \/ BeginAttempt(s)
        \/ Respond(s)
        \/ Wake(s)
        \/ RaiseExhausted(s)
        \/ Done(s)

Spec == Init /\ [][Next]_vars

\* What the network does in the concurrent specification: a 2xx response, a
\* non-2xx response, an exception of the transport.
ConcurrentOutcomes ==
    { Resp(Response(200, JInvalid, None)),
      Resp(Response(500, TextBody("Forbidden"), "text/html")),
      Exc("httpx.ConnectError", "proxy refused") }

\* The steps of a search in the concurrent specification: the steps of the
\* executor specification with one input each (the largest attempts, the
\* first params, the first draw, the shortest jitter) and the outcomes above.
CallOnce(s) ==
    /\ Call(s)
    /\ attempts'[s] = MaxAttempts - 1
    /\ caller_params'[s].passed = ("text" :> "btc")

BeginAttemptConcurrent(s) ==
    /\ BeginAttempt(s)
    /\ request'[s].headers["User-Agent"][2] = "Windows"
    /\ jitter'[s] \in {0, JitterMinMs}

RespondConcurrent(s) ==
    /\ Respond(s)
    /\ outcome'[s] \in ConcurrentOutcomes
    /\ jitter'[s] \in {0, JitterMinMs}

CancelConcurrent(s) ==
    /\ Cancel(s)
    /\ jitter'[s] \in {0, JitterMinMs}

\* Concurrent searches on the shared selector: each search of AllSearches is
\* called once, runs interleaved with the other at its suspension points,
\* and may be cancelled while it is suspended.
NextConcurrent ==
    \E s \in AllSearches :
        \/ CallOnce(s)
        \/ BeginAttemptConcurrent(s)
        \/ RespondConcurrent(s)
        \/ Wake(s)
        \/ RaiseExhausted(s)
        \/ CancelConcurrent(s)

SpecConcurrent == Init /\ [][NextConcurrent]_vars

\* A call with any number of attempts and the first params.
CallAnyAttempts(s) ==
    /\ Call(s)
    /\ caller_params'[s].passed = ("text" :> "btc")

\* The search executor, one search after the other, with one input for each
\* step but the number of attempts, and the three kinds of outcome above.
NextFair ==
    \E s \in Searches :
        \/ CallAnyAttempts(s)
        \/ BeginAttemptConcurrent(s)
        \/ RespondConcurrent(s)
        \/ Wake(s)
        \/ RaiseExhausted(s)
        \/ Done(s)

\* The scheduling the code relies on: the event loop runs a coroutine that
\* can run (lines 70-112, line 185), client.get ends with a response or an
\* exception within the timeout of line 111, and asyncio.sleep ends (lines
\* 175, 182).
Fairness ==
    \A s \in Searches :
        /\ WF_vars(BeginAttemptConcurrent(s))
        /\ WF_vars(RespondConcurrent(s))
        /\ WF_vars(Wake(s))
        /\ WF_vars(RaiseExhausted(s))

SpecFair == Init /\ [][NextFair]_vars /\ Fairness

\* The selector alone.
NextPool ==
    \/ GetNextProxy /\ UNCHANGED <<normVars, fpVars, searchVars, otherVars>>
    \/ GetRandomProxy /\ UNCHANGED <<normVars, fpVars, searchVars, otherVars>>

SpecPool == Init /\ [][NextPool]_vars

\* Two instances, their operations called in any order.
NextInstances ==
    \/ /\ GetNextProxy
       /\ Len(nextLog') + Len(randLog') <= MaxInstanceCalls
       /\ UNCHANGED <<normVars, fpVars, searchVars, otherVars>>
    \/ /\ GetRandomProxy
       /\ Len(nextLog') + Len(randLog') <= MaxInstanceCalls
       /\ UNCHANGED <<normVars, fpVars, searchVars, otherVars>>
    \/ OtherGetNextProxy /\ UNCHANGED <<normVars, fpVars, searchVars>>
    \/ OtherGetRandomProxy /\ UNCHANGED <<normVars, fpVars, searchVars>>

SpecInstances == Init /\ [][NextInstances]_vars

\* The normalizer on every input.
InitNormInputs ==
    /\ InitPool /\ InitLogs /\ InitOther /\ InitFp /\ InitSearch
    /\ nResp \in NormInputs(MaxItems)
    /\ nOut = NoResult
    /\ nPrev = NoResult

NextNorm == ParseAndFilter /\ UNCHANGED <<poolVars, logVars, fpVars, searchVars,
                                   otherVars>>

SpecNorm == InitNormInputs /\ [][NextNorm]_vars

\* The normalizer on every input, and once more on what it returned.
NextRenorm ==
    \/ ParseAndFilter /\ UNCHANGED <<poolVars, logVars, fpVars, searchVars,
                                   otherVars>>
    \/ Renormalize /\ UNCHANGED <<poolVars, logVars, fpVars, searchVars,
                                   otherVars>>

SpecRenorm == InitNormInputs /\ [][NextRenorm]_vars

\* The fingerprint generator on every region.
InitFpInputs ==
    /\ InitPool /\ InitLogs /\ InitOther /\ InitNorm /\ InitSearch
    /\ fpState \in Regions
    /\ fpOut = NoFingerprint
    /\ fpHeaders = NoHeaders

NextFp ==
    \/ GenerateFingerprint
           /\ UNCHANGED <<poolVars, logVars, normVars, searchVars, otherVars>>
    \/ BuildHeaders /\ UNCHANGED <<poolVars, logVars, normVars, searchVars, otherVars>>

SpecFp == InitFpInputs /\ [][NextFp]_vars

(***************************************************************************)
(* The claims on the search executor (specification Spec).                 *)
(***************************************************************************)
Is2xx(o) == o.kind = "response" /\ o.resp.status \in 200..299

IsFailure(o) == o.kind = "exception" \/ (o.kind = "response" /\ o.resp.status \notin 200..299)

\* C1: a search never begins more iterations or sends more requests than its
\* max_attempts k, and when it raises it raises TradingViewProxyError after
\* exactly k iterations that all failed, each of which either sent its
\* request or failed before sending it; so k upstream failures mean exactly k
\* requests.
C1_AttemptBudget ==
    \A s \in Searches :
        /\ iter[s] <= attempts[s]
        /\ nRequests[s] <= attempts[s]
        /\ pc[s] = "raised" =>
               /\ error[s].cls = "TradingViewProxyError"
               /\ iter[s] = attempts[s]
               /\ nFailed[s] = attempts[s]
               /\ nRequests[s] + nSetupFailed[s] = attempts[s]
               /\ result[s] = NoResult

\* A search of 3 attempts raised after 3 upstream requests.
C1_Witness ==
    \E s \in Searches :
        /\ pc[s] = "raised"
        /\ attempts[s] = MaxAttempts
        /\ nRequests[s] = MaxAttempts
        /\ nSetupFailed[s] = 0

\* C2: a jitter sleep is under way only while attempts remain and lasts
\* between 250 and 800 ms, and a search whose k >= 1 attempts all failed has
\* slept k - 1 times when it raises.
C2_JitterOnlyBetweenAttempts ==
    \A s \in Searches :
        /\ pc[s] = "sleep" =>
               /\ jitter[s] >= 250 /\ jitter[s] <= 800
               /\ iter[s] < attempts[s]
        /\ (pc[s] = "raised" /\ attempts[s] >= 1) => nDelays[s] = attempts[s] - 1

\* C3: the step in which a waiting search receives a status in [200,300)
\* takes it to "returned" with a result, without a delay and without touching
\* the selector; a returned search sends no request, selects no proxy and
\* sleeps no more (its only step is to leave its place).
C3_SuccessShortCircuit ==
    [][\A s \in Searches :
          /\ (pc[s] = "await" /\ Is2xx(outcome'[s])) =>
                 /\ pc'[s] = "returned"
                 /\ result'[s] # NoResult
                 /\ nDelays'[s] = nDelays[s]
                 /\ nRequests'[s] = nRequests[s]
                 /\ poolVars' = poolVars
          /\ pc[s] = "returned" =>
                 \/ /\ pc'[s] = "returned"
                    /\ nRequests'[s] = nRequests[s]
                    /\ nDelays'[s] = nDelays[s]
                 \/ /\ pc'[s] = "idle"
                    /\ request'[s] = NoRequest
                    /\ poolVars' = poolVars
      ]_vars

\* A search returned on a 299 whose body is no JSON, after a retry.
C3_Witness ==
    \E s \in Searches :
        /\ pc[s] = "returned"
        /\ Is2xx(outcome[s])
        /\ outcome[s].resp.status = 299
        /\ outcome[s].resp.body = JInvalid
        /\ nDelays[s] = 1
        /\ iter[s] < attempts[s]

\* The diagnostic the claims expect of a failed attempt.
ExpectedDiagnostic(o) ==
    IF o.kind = "response"
    THEN [kind |-> "status", status |-> o.resp.status,
          text |-> First200(o.resp.body.text)]
    ELSE [kind |-> "message", msg |-> o.msg]

C7_ErrorPropagation ==
    \A s \in Searches :
        /\ pc[s] \in {"idle", "loop", "await", "sleep", "returned", "raised"}
        /\ pc[s] = "raised" <=> error[s] # NoException
        /\ pc[s] = "raised" =>
               /\ error[s].cls = "TradingViewProxyError"
               /\ iter[s] = attempts[s]
        /\ pc[s] = "returned" <=> result[s] # NoResult
        /\ pc[s] = "returned" =>
               /\ Is2xx(outcome[s])
               /\ DOMAIN result[s] = {"content", "content_type"}
        /\ IsFailure(outcome[s]) => pc[s] \in {"sleep", "loop", "raised"}

\* A search raised TradingViewProxyError after an exception before the request.
C7_Witness ==
    \E s \in Searches :
        /\ pc[s] = "raised"
        /\ outcome[s] \in SetupExceptions
        /\ attempts[s] >= 2
        /\ nRequests[s] >= 1

\* The payload of a 2xx response is not one the normalizer handles: no JSON,
\* neither a list nor a mapping with a symbols list, or a list with a kept
\* item on whose symbol the normalization fails.
Malformed(resp) ==
    \/ resp.body.t \in {"invalid", "other"}
    \/ IsDict(resp.body) /\ ~IsSymbolsMapping(resp.body)
    \/ /\ IsList(resp.body)
       /\ \E i \in 1..Len(resp.body.v) :
              /\ IsDict(resp.body.v[i])
              /\ Get(resp.body.v[i].v, "type", None) = "stock"
              /\ Get(resp.body.v[i].v, "symbol", None) = Unhashable

\* C13: a search whose request met a 2xx response with such a payload has
\* returned (it neither sleeps nor goes on nor has raised), and what it
\* returned is the raw bytes of the body with the content type the response
\* declared (application/json when it declared none).
C13_MalformedPassThrough ==
    \A s \in Searches :
        (Is2xx(outcome[s]) /\ Malformed(outcome[s].resp)) =>
            /\ pc[s] = "returned"
            /\ error[s] = NoException
            /\ result[s].content = [enc |-> "raw", body |-> outcome[s].resp.body]
            /\ result[s].content_type =
                   IF outcome[s].resp.ctype = None THEN "application/json"
                   ELSE outcome[s].resp.ctype
            /\ nDelays[s] = nFailed[s]

\* A search returned the bytes of a list on which the normalization failed,
\* as text/html, on its first attempt.
C13_Witness ==
    \E s \in Searches :
        /\ pc[s] = "returned"
        /\ Is2xx(outcome[s])
        /\ IsList(outcome[s].resp.body)
        /\ Malformed(outcome[s].resp)
        /\ result[s].content_type = "text/html"
        /\ iter[s] = 1

\* The parameters the specification sends for the caller's p.
ExpectedParams(p) ==
    [k \in DOMAIN p \cup {"lang", "limit"} |->
        IF k \in DOMAIN p THEN p[k] ELSE IF k = "lang" THEN "en" ELSE "50"]

\* C15: the request of every attempt carries the caller's parameters
\* unchanged, with lang=en and limit=50 for the ones omitted (so the same
\* set in every retry), and the caller's mapping is as the caller passed it.
C15_DefaultParameters ==
    \A s \in Searches :
        /\ caller_params[s].now = caller_params[s].passed
        /\ request[s].sent =>
               /\ {"lang", "limit"} \subseteq DOMAIN request[s].params
               /\ request[s].params = ExpectedParams(caller_params[s].passed)

\* The request of a retry of a search called with a limit, another parameter
\* and no lang.
C15_Witness ==
    \E s \in Searches :
        /\ pc[s] = "await"
        /\ iter[s] = 2
        /\ "lang" \notin DOMAIN caller_params[s].passed
        /\ request[s].params["lang"] = "en"
        /\ request[s].params["limit"] = "10"
        /\ request[s].params["exchange"] = "NASDAQ"

\* The step of a search begins an attempt.
BeginsAttempt(s) == iter'[s] = iter[s] + 1

\* The set a randomized selection of location string l leaves behind.
AfterSelection(used, l) == (IF used = CatalogStrs THEN {} ELSE used) \cup {l}

Offsets(timezone) ==
    CASE timezone = "America/New_York" -> {"-0500", "-0400"}
      [] timezone = "America/Chicago" -> {"-0600", "-0500"}
      [] timezone = "America/Los_Angeles" -> {"-0800", "-0700"}
      [] timezone = "America/Phoenix" -> {"-0700"}

\* The timezone the specification gives the region of a catalog location.
RegionTimezone(region) ==
    CASE region \in {"ny", "nj", "fl", "ga"} -> "America/New_York"
      [] region \in {"ca", "wa"} -> "America/Los_Angeles"
      [] region = "az" -> "America/Phoenix"
      [] OTHER -> "America/Chicago"

\* C20: the request of an attempt is routed through a catalog location, the
\* second component of whose string is its region code, and carries the
\* timezone hint of that region and a timezone cookie with an offset of
\* that timezone.
C20_IdentityBoundToEgress ==
    \A s \in Searches :
        request[s].sent =>
            LET region == request[s].location[2]
            IN /\ \E i \in 1..Len(Catalog) :
                      /\ request[s].location = <<"us", Catalog[i].state, Catalog[i].city>>
                      /\ Catalog[i].state = region
               /\ request[s].proxy[2][4] = request[s].location
               /\ request[s].headers["sec-ch-ua-timezone"] = RegionTimezone(region)
               /\ \E off \in Offsets(RegionTimezone(region)) :
                      request[s].headers["Cookie"] = <<"timezone_offset=", off, ";">>

\* A request goes out through Miami with the hint and the summer offset of
\* New York.
C20_Witness ==
    \E s \in Searches :
        /\ pc[s] = "await"
        /\ request[s].location = <<"us", "fl", "miami">>
        /\ request[s].headers["sec-ch-ua-timezone"] = "America/New_York"
        /\ request[s].headers["Cookie"] = <<"timezone_offset=", "-0400", ";">>

(***************************************************************************)
(* The claims on concurrent searches (specification SpecConcurrent).       *)
(***************************************************************************)
\* The randomized selections the searches have made together.
Selections == iter["s1"] + iter["s2"]

\* C16: a step in which a search begins an attempt is the step of that
\* search alone and makes one randomized selection, of a location that is
\* not in the recently-used set unless the set holds the whole catalog; no
\* other step changes the selector; and after n selections by the searches
\* together the set holds ((n - 1) mod N) + 1 locations: none lost, none
\* made twice.
C16_AtomicSelections ==
    [][/\ \A s \in AllSearches :
             BeginsAttempt(s) =>
                 /\ \A o \in AllSearches \ {s} :
                        /\ iter'[o] = iter[o]
                        /\ request'[o] = request[o]
                        /\ pc'[o] = pc[o]
                 /\ request'[s].location \in CatalogStrs
                 /\ request'[s].location \notin used_locations
                        \/ used_locations = CatalogStrs
                 /\ used_locations' = AfterSelection(used_locations, request'[s].location)
                 /\ current_index' = current_index
       /\ (\A s \in AllSearches : ~BeginsAttempt(s)) => poolVars' = poolVars
       /\ Cardinality(used_locations') =
              IF Selections' = 0 THEN 0 ELSE ((Selections' - 1) % NumLocations) + 1
      ]_vars

\* Both searches are suspended in their second attempt: four selections
\* were made, the last one on a full set.
C16_Witness ==
    /\ pc["s1"] = "await" /\ pc["s2"] = "sleep"
    /\ iter["s1"] = 2 /\ iter["s2"] = 2
    /\ Cardinality(used_locations) = 1

\* The search has been cancelled.
Cancelled(s) ==
    outcome[s].kind = "exception" /\ outcome[s].cls = "asyncio.CancelledError"

\* C17: the step that cancels a suspended search ends it with the
\* cancellation itself: no result, no exhausted-retries error, no diagnostic
\* recorded, no delay begun, the selector as it was; and a cancelled search
\* takes no further step: no selection, no request, no delay.
C17_Cancellation ==
    [][\A s \in AllSearches :
          /\ (~Cancelled(s) /\ Cancelled(s)')
                 => /\ pc[s] \in {"await", "sleep"}
                    /\ pc'[s] = "raised"
                    /\ error'[s].cls = "asyncio.CancelledError"
                    /\ result'[s] = NoResult
                    /\ last_error'[s] = last_error[s]
                    /\ nFailed'[s] = nFailed[s]
                    /\ nDelays'[s] = nDelays[s]
                    /\ nRequests'[s] = nRequests[s]
                    /\ iter'[s] = iter[s]
                    /\ poolVars' = poolVars
          /\ Cancelled(s)
                 => /\ pc'[s] = pc[s]
                    /\ iter'[s] = iter[s]
                    /\ request'[s] = request[s]
                    /\ result'[s] = result[s]
                    /\ error'[s] = error[s]
                    /\ nRequests'[s] = nRequests[s]
                    /\ nDelays'[s] = nDelays[s]
      ]_vars

\* A search was cancelled in the sleep after its first attempt, with an
\* attempt left, while the other search waits for its response.
C17_Witness ==
    /\ pc["s1"] = "raised"
    /\ error["s1"].cls = "asyncio.CancelledError"
    /\ iter["s1"] = 1 /\ nDelays["s1"] = 1 /\ jitter["s1"] > 0
    /\ iter["s1"] < attempts["s1"]
    /\ pc["s2"] = "await"

(***************************************************************************)
(* The claims on the selector (specification SpecPool).                    *)
(***************************************************************************)
\* C4: the i-th get_next_proxy (from 0) returns the catalog location of
\* index i mod N, whatever get_random_proxy calls come in between.
C4_RoundRobin ==
    \A i \in 1..Len(nextLog) :
        nextLog[i] = LocationStr(Catalog[((i - 1) % NumLocations) + 1])

\* The round robin has wrapped, with randomized selections made meanwhile.
C4_Witness ==
    /\ Len(nextLog) > NumLocations
    /\ Len(randLog) >= 2
    /\ current_index = 1

\* The position of randLog at which the epoch of position i began: the last
\* call up to i that cleared the recently-used set, or the first call.
EpochStart(i) ==
    LET cs == {c \in clearLog : c <= i}
    IN IF cs = {} THEN 1 ELSE CHOOSE c \in cs : \A d \in cs : d <= c

\* C5: a location is returned again only after every other catalog location
\* has been returned since the last reset before its earlier return; and the
\* calls from one reset up to the next return each of the N locations once.
C5_NoRepeatUntilAllUsed ==
    /\ \A i, j \in 1..Len(randLog) :
           (i < j /\ randLog[i] = randLog[j]) =>
               /\ EpochStart(j) > i
               /\ \A l \in CatalogStrs :
                      \E k \in EpochStart(i)..(j - 1) : randLog[k] = l
    /\ \A c \in clearLog :
           LET b == EpochStart(c - 1)
           IN /\ c > 1
              /\ c - b = NumLocations
              /\ {randLog[k] : k \in b..(c - 1)} = CatalogStrs

\* Two resets have happened.
C5_Witness ==
    /\ Cardinality(clearLog) = 2
    /\ Len(randLog) = 2 * NumLocations + 1

(***************************************************************************)
(* The claims on the normalizer (specification SpecNorm).                  *)
(***************************************************************************)
\* The payload was normalized: it is a list, or a mapping with a symbols
\* list, and the normalization did not fail on it.
Normalized ==
    /\ nOut # NoResult
    /\ IsList(nResp.body) \/ IsSymbolsMapping(nResp.body)
    /\ nOut.content.enc = "json"

\* The items of the payload, and the items of the normalizer's output.
InItems == IF IsList(nResp.body) THEN nResp.body.v ELSE nResp.body.v["symbols"].v
OutItems ==
    IF IsList(nResp.body) THEN nOut.content.v.v ELSE nOut.content.v.v["symbols"].v

\* The symbol of an item (None: no dict, or no symbol).
SymbolOf(x) == IF IsDict(x) THEN Get(x.v, "symbol", None) ELSE None
HasSymbol(x) == SymbolOf(x) \notin {None, ""}

\* The category of an item, compared in lower case (None: missing).
CategoryOf(x) == IF "type" \in DOMAIN x.v THEN Lower(x.v["type"]) ELSE None

\* Whether the sub-type markers of an item, under either spelling of the
\* field, include a crypto marker.
CryptoMarked(x) ==
    \E key \in {"typespecs", "typeSpecs"} \cap DOMAIN x.v :
        \E i \in 1..Len(x.v[key]) : Lower(x.v[key][i]) = "crypto"

\* The filter predicate as the specification states it.
ShouldKeep(x) ==
    /\ IsDict(x)
    /\ \/ CategoryOf(x) \in {"index", "forex", "stock"} /\ ~CryptoMarked(x)
       \/ CategoryOf(x) = "spot" /\ CryptoMarked(x)

\* C8: an item whose symbol no other item of the payload carries is in the
\* output iff its category is index, forex or stock and it has no crypto
\* marker, or its category is spot and it has one; for a bare list and for
\* the symbols list of a mapping alike.
C8_FilterPredicate ==
    Normalized =>
        \A i \in 1..Len(InItems) :
            (/\ HasSymbol(InItems[i])
             /\ \A j \in 1..Len(InItems) :
                    j # i => SymbolOf(InItems[j]) # SymbolOf(InItems[i]))
            => ((\E k \in 1..Len(OutItems) :
                     SymbolOf(OutItems[k]) = SymbolOf(InItems[i]))
                <=> ShouldKeep(InItems[i]))

\* A mapping of a discarded fund and a kept spot item marked crypto, each the
\* only item of its symbol.
C8_Witness ==
    /\ Normalized
    /\ IsSymbolsMapping(nResp.body)
    /\ Len(InItems) = 2
    /\ Len(OutItems) = 1
    /\ IsDict(InItems[1]) /\ IsDict(InItems[2])
    /\ CategoryOf(InItems[1]) = "fund" /\ SymbolOf(InItems[1]) = "A"
    /\ CategoryOf(InItems[2]) = "spot" /\ SymbolOf(InItems[2]) = "B"
    /\ SymbolOf(OutItems[1]) = "B"

\* The indices of the first filtered occurrence of each symbol.
FirstOccurrences ==
    {i \in 1..Len(InItems) :
        /\ ShouldKeep(InItems[i])
        /\ HasSymbol(InItems[i])
        /\ \A j \in 1..(i - 1) :
               ~(ShouldKeep(InItems[j]) /\ SymbolOf(InItems[j]) = SymbolOf(InItems[i]))}

RECURSIVE Ascending(_)
Ascending(S) ==
    IF S = {} THEN <<>>
    ELSE LET m == CHOOSE x \in S : \A y \in S : x <= y
         IN <<m>> \o Ascending(S \ {m})

\* C9: the output holds, in input order, exactly the first filtered
\* occurrence of each symbol (its fields other than the category and the
\* stripped ones unchanged); no two output items share a symbol and every
\* output item has a non-empty symbol.
C9_Deduplication ==
    Normalized =>
        LET first == Ascending(FirstOccurrences)
        IN /\ Len(OutItems) = Len(first)
           /\ \A k \in 1..Len(OutItems) :
                  /\ HasSymbol(OutItems[k])
                  /\ Without(OutItems[k].v, {"type"})
                         = Without(InItems[first[k]].v, remove_keys \cup {"type"})
           /\ \A k, l \in 1..Len(OutItems) :
                  k # l => SymbolOf(OutItems[k]) # SymbolOf(OutItems[l])

\* Two kept items of one symbol and different fields: the first survives.
C9_Witness ==
    /\ Normalized
    /\ Len(InItems) = 2
    /\ IsDict(InItems[1]) /\ IsDict(InItems[2])
    /\ ShouldKeep(InItems[1]) /\ ShouldKeep(InItems[2])
    /\ SymbolOf(InItems[1]) = "A" /\ SymbolOf(InItems[2]) = "A"
    /\ "provider_id" \in DOMAIN InItems[2].v
    /\ CategoryOf(InItems[1]) = "stock" /\ CategoryOf(InItems[2]) = "spot"
    /\ Len(OutItems) = 1
    /\ "typespecs" \notin DOMAIN OutItems[1].v

\* C10: every item kept under the spot rule is in the output with category
\* "crypto", so no output item has a category the filter reads as spot.
C10_SpotRewritten ==
    Normalized =>
        \A k \in 1..Len(OutItems) :
            /\ CategoryOf(OutItems[k]) # "spot"
            /\ CryptoMarked(OutItems[k]) => OutItems[k].v["type"] = "crypto"

\* The provenance fields the specification names.
ProvenanceFields == {"provider_id", "source_logoid", "source2", "source_id"}

\* C12: no output item has a provenance field; an output item has every
\* other key of the input item it comes from, with the same value, except
\* that the category of a spot item marked crypto may have become "crypto".
C12_FieldStripping ==
    Normalized =>
        LET first == Ascending(FirstOccurrences)
        IN \A k \in 1..Len(OutItems) :
               /\ DOMAIN OutItems[k].v \cap ProvenanceFields = {}
               /\ k <= Len(first) =>
                      LET in == InItems[first[k]].v
                          out == OutItems[k].v
                      IN /\ DOMAIN out = DOMAIN in \ ProvenanceFields
                         /\ \A key \in DOMAIN out :
                                \/ out[key] = in[key]
                                \/ /\ key = "type"
                                   /\ Lower(in[key]) = "spot"
                                   /\ CryptoMarked(InItems[first[k]])
                                   /\ out[key] = "crypto"

\* A spot item marked crypto with the four provenance fields came out
\* rewritten and without them.
C12_Witness ==
    /\ Normalized
    /\ Len(InItems) = 1
    /\ Len(OutItems) = 1
    /\ IsDict(InItems[1])
    /\ ProvenanceFields \subseteq DOMAIN InItems[1].v
    /\ InItems[1].v["type"] = "spot"
    /\ OutItems[1].v["type"] = "crypto"
    /\ DOMAIN OutItems[1].v = {"symbol", "type", "typespecs"}

\* The payload has a shape the normalizer handles and no kept item makes
\* the normalization fail.
Normalizable ==
    /\ IsList(nResp.body) \/ IsSymbolsMapping(nResp.body)
    /\ \A i \in 1..Len(InItems) :
           ShouldKeep(InItems[i]) => SymbolOf(InItems[i]) # Unhashable

\* C14: the output for a bare list is JSON of a list; the output for a
\* mapping with a symbols list is JSON of a mapping with the same keys, the
\* same value under every key but symbols, and a list under symbols; and
\* the content type returned is application/json whatever was declared.
C14_OutputShape ==
    (nOut # NoResult /\ Normalizable) =>
        /\ nOut.content_type = "application/json"
        /\ nOut.content.enc = "json"
        /\ IsList(nResp.body) => IsList(nOut.content.v)
        /\ IsSymbolsMapping(nResp.body) =>
               /\ IsDict(nOut.content.v)
               /\ DOMAIN nOut.content.v.v = DOMAIN nResp.body.v
               /\ \A key \in DOMAIN nResp.body.v \ {"symbols"} :
                      nOut.content.v.v[key] = nResp.body.v[key]
               /\ IsList(nOut.content.v.v["symbols"])

\* A mapping declared text/html came back as JSON with its other key.
C14_Witness ==
    /\ nOut # NoResult
    /\ Normalizable
    /\ IsSymbolsMapping(nResp.body)
    /\ nResp.ctype = "text/html"
    /\ Len(InItems) = 1
    /\ nOut.content_type = "application/json"
    /\ nOut.content.v.v["symbols_remaining"] = "0"
    /\ Len(nOut.content.v.v["symbols"].v) = 1

(***************************************************************************)
(* The claim on normalizing twice (specification SpecRenorm).              *)
(***************************************************************************)
\* The state after the second normalization of a payload the first one
\* normalized.
Renormalized == nPrev # NoResult /\ nPrev.content.enc = "json"

WithoutCrypto(items) ==
    SelectSeq(items, LAMBDA x : Get(x.v, "type", None) # "crypto")

MappedTimezone(region) ==
    CASE region \in {"ny", "nj", "fl", "ga"} -> "America/New_York"
      [] region \in {"ca", "wa"} -> "America/Los_Angeles"
      [] region \in {"tx", "il"} -> "America/Chicago"
      [] region = "az" -> "America/Phoenix"
      [] OTHER -> "America/Chicago"

\* C18: whatever the draw, the timezone hint header and the timezone
\* identifier of the fingerprint generated for a region are equal, and are
\* the table's value for the region read in lower case, America/Chicago
\* for a region the table does not map.
C18_TimezoneConsistency ==
    fpOut # NoFingerprint =>
        /\ fpOut.headers["sec-ch-ua-timezone"] = fpOut.timezone_id
        /\ fpOut.timezone_id = MappedTimezone(Lower(fpState))
        /\ Lower(fpState) \in {"or", "zz"} => fpOut.timezone_id = "America/Chicago"

\* A fingerprint was generated for the region written "NY".
C18_Witness ==
    /\ fpState = "NY"
    /\ fpOut # NoFingerprint
    /\ fpOut.timezone_id = "America/New_York"
    /\ fpOut.user_agent[2] = "Macintosh"

(***************************************************************************)
(* Claims about the descriptors and the state of the selector, checked     *)
(* under SpecPool.                                                         *)
(***************************************************************************)
\* The step is a call of get_next_proxy, of get_random_proxy.
NextProxyCalled == Len(nextLog') = Len(nextLog) + 1
RandomProxyCalled == Len(randLog') = Len(randLog) + 1

\* The identity string customer-<id>-residential-<canonical-location>.
IdentityString(id, location) == <<"customer", id, "residential", location>>

\* The dict names the one location in its location field, its identity
\* string and the identity embedded in its connection URL.
Coherent(conf) ==
    /\ conf.location \in CatalogStrs
    /\ conf.username = IdentityString("mujtaba_zUooU", conf.location)
    /\ conf.url[1] = "http"
    /\ conf.url[2] = IdentityString("mujtaba_zUooU", conf.location)

\* One step of the round-robin selector: the cursor advances by one.
OneRoundRobinStep ==
    /\ current_index' = (current_index + 1) % NumLocations
    /\ used_locations' = used_locations

\* One step of the randomized selector that returns `location`: that one
\* location is marked used, in the set as it was or in the set cleared.
OneRandomStep(location) ==
    /\ current_index' = current_index
    /\ \/ /\ location \notin used_locations
          /\ used_locations' = used_locations \cup {location}
       \/ /\ used_locations = CatalogStrs
          /\ used_locations' = {location}

\* C21: every descriptor get_next_proxy or get_random_proxy returns names one
\* single location in its location field, its identity string and the
\* identity embedded in its URL, and producing it performs exactly one
\* selection step: the cursor advances by exactly one, or exactly one location
\* is marked used; building the URL and the identity selects nothing more.
C21_DescriptorCoherence ==
    [][ /\ NextProxyCalled => Coherent(lastConf') /\ OneRoundRobinStep
        /\ RandomProxyCalled =>
               Coherent(lastConf') /\ OneRandomStep(lastConf'.location)
      ]_vars

\* Both operations have returned descriptors, the last one by a randomized
\* selection that found every location used.
C21_Witness ==
    /\ lastConf # NoConf
    /\ nextLog # <<>>
    /\ Len(randLog) \in clearLog
    /\ lastConf.location = randLog[Len(randLog)]

\* The step takes a location out of the recently-used set.
RemovesUsed == used_locations \ used_locations' # {}

\* C22: in every reachable state the recently-used set holds only canonical
\* strings of catalog locations and the cursor is in 0..N-1; only a randomized
\* selection that finds every catalog location in the set clears it; right
\* after a randomized selection the set is non-empty and holds the location
\* just returned.
C22_RecentlyUsedInvariant ==
    [][ /\ used_locations \subseteq CatalogStrs
        /\ used_locations' \subseteq CatalogStrs
        /\ current_index \in 0..(NumLocations - 1)
        /\ current_index' \in 0..(NumLocations - 1)
        /\ RemovesUsed => RandomProxyCalled /\ used_locations = CatalogStrs
        /\ RandomProxyCalled =>
               /\ used_locations' # {}
               /\ lastConf'.location \in used_locations'
      ]_vars

\* A randomized selection has just cleared the full set, with the cursor on
\* the last entry of the catalog.
C22_Witness ==
    /\ Len(randLog) \in clearLog
    /\ used_locations = {randLog[Len(randLog)]}
    /\ current_index = NumLocations - 1

\* No two entries of the list have the same canonical string.
NoDuplicateStrs(locations) ==
    \A i, j \in 1..Len(locations) :
        LocationStr(locations[i]) = LocationStr(locations[j]) => i = j

\* C23: a round-robin selection changes only the cursor and leaves the
\* recently-used set unchanged; a randomized selection changes only the
\* recently-used set and leaves the cursor unchanged; neither changes the
\* catalog, whose contents, order and length stay fixed, with no duplicate
\* canonical strings.
C23_SelectionFrame ==
    [][ /\ NextProxyCalled =>
               /\ used_locations' = used_locations
               /\ current_index' # current_index
        /\ RandomProxyCalled =>
               /\ current_index' = current_index
               /\ used_locations' # used_locations
        /\ pool_locations' = pool_locations
        /\ pool_locations = Catalog
        /\ NoDuplicateStrs(pool_locations)
        /\ NoDuplicateStrs(LOCATIONS)
      ]_vars

\* The cursor has wrapped and a randomized selection has reset the set, and
\* the catalog is what it was.
C23_Witness ==
    /\ Len(nextLog) > NumLocations
    /\ clearLog # {}
    /\ Cardinality(used_locations) > 1
    /\ pool_locations = Catalog

(***************************************************************************)
(* Claim about two selector instances, checked under SpecInstances.        *)
(***************************************************************************)
\* The step is a call of an operation of the second instance.
OtherCalled ==
    Len(otherNextLog') + Len(otherRandLog') = Len(otherNextLog) + Len(otherRandLog) + 1

\* The first of k randomized calls on a fresh instance that are after its
\* last reset: the call N+1, 2N+1, ... finds the set full and resets it.
AloneEpochStart(k) ==
    IF k = 0 THEN 1 ELSE ((k - 1) \div NumLocations) * NumLocations + 1

\* What an instance that is used alone holds after the calls logged: the
\* round-robin cursor has gone through the catalog from its start, the set
\* holds the randomized returns since the last reset.
AsIfAlone(index, used, nexts, rands) ==
    /\ index = Len(nexts) % NumLocations
    /\ \A i \in 1..Len(nexts) :
           nexts[i] = LocationStr(Catalog[((i - 1) % NumLocations) + 1])
    /\ used = {rands[i] : i \in AloneEpochStart(Len(rands))..Len(rands)}
    /\ Cardinality(used) = Len(rands) - AloneEpochStart(Len(rands)) + 1

\* C24: two OxyLabsProxy instances do not interfere: selections on one leave
\* the cursor and the recently-used set of the other unchanged, and each
\* returns the locations it would return if the other had never been used.
C24_InstanceIsolation ==
    [][ /\ (NextProxyCalled \/ RandomProxyCalled) =>
               /\ other_index' = other_index
               /\ other_used' = other_used
        /\ OtherCalled =>
               /\ current_index' = current_index
               /\ used_locations' = used_locations
        /\ AsIfAlone(other_index', other_used', otherNextLog', otherRandLog')
        /\ AsIfAlone(current_index', used_locations', nextLog', randLog')
      ]_vars

\* Both instances have been used, and their cursors and sets differ.
C24_Witness ==
    /\ otherNextLog # <<>> /\ otherRandLog # <<>>
    /\ nextLog # <<>> /\ randLog # <<>>
    /\ other_index # current_index
    /\ other_used # {} /\ used_locations # {}
    /\ other_used \cap used_locations = {}

(***************************************************************************)
(* Claim about termination, checked under SpecFair.                        *)
(***************************************************************************)
\* The search is under way.
Running(s) == pc[s] \in {"loop", "await", "sleep"}

\* The search has ended: it returned a result or raised the error of line 185.
Terminated(s) ==
    \/ pc[s] = "returned" /\ result[s] # NoResult
    \/ pc[s] = "raised" /\ error[s] # NoException /\ error[s] = TradingViewProxyError(last_error[s])

\* C25: given that every upstream request ends within its timeout and every
\* jitter sleep ends, every search ends, by returning a result or by raising
\* the exhausted-retries error; and a randomized selection has a location to
\* return in every state of the selector, the set full or not.
C25_Termination ==
    /\ [](get_random_location(used_locations) # {})
    /\ \A s \in Searches : Running(s) ~> Terminated(s)

\* A search has raised after all its attempts, one of which selected with
\* every location in the recently-used set.
C25_Witness ==
    \E s \in Searches :
        /\ pc[s] = "raised"
        /\ iter[s] = MaxAttempts
        /\ nRequests[s] = MaxAttempts
        /\ Cardinality(used_locations) < NumLocations

(***************************************************************************)
(* Claim about the client hints, checked under SpecFp.                     *)
(***************************************************************************)
\* The profile and the browser version embedded in a generated user agent.
ProfileOf(ua) == ua[2]
VersionOf(ua) == ua[Len(ua) - 1]

\* The browser versions of the generator with their majors.
VersionMajors ==
    { <<"120.0.0.0", "120">>, <<"119.0.0.0", "119">>, <<"118.0.0.0", "118">>,
      <<"117.0.0.0", "117">>, <<"116.0.0.0", "116">>, <<"115.0.0.0", "115">> }

\* The value of sec-ch-ua for a major version.
SecChUa(major) ==
    <<"\"Chromium\";v=\"", major, "\", \"Google Chrome\";v=\"", major,
      "\", \"Not:A-Brand\";v=\"99\"">>

\* C26: for every fingerprint the generator can produce, the platform hint
\* sent upstream is the Windows token exactly when the Windows profile was
\* chosen and the macOS token exactly when the Macintosh profile was chosen,
\* never the Linux token; the major version in sec-ch-ua is the major of the
\* browser version in the user agent, found by the match and not by the
\* fallback; the mobile flag is "?0".
C26_ClientHints ==
    fpHeaders # NoHeaders =>
        LET ua == fpOut.user_agent
        IN /\ fpHeaders["User-Agent"] = ua
           /\ fpHeaders["sec-ch-ua-platform"] = "\"Windows\"" <=> ProfileOf(ua) = "Windows"
           /\ fpHeaders["sec-ch-ua-platform"] = "\"macOS\"" <=> ProfileOf(ua) = "Macintosh"
           /\ fpHeaders["sec-ch-ua-platform"] # "\"Linux\""
           /\ ProfileOf(ua) \in {"Windows", "Macintosh"}
           /\ \E vm \in VersionMajors :
                  /\ VersionOf(ua) = vm[1]
                  /\ fpHeaders["sec-ch-ua"] = SecChUa(vm[2])
           /\ ChromeMatches(ua) # {}
           /\ fpHeaders["sec-ch-ua-mobile"] = "?0"

\* The headers are built for a Macintosh fingerprint with a browser version
\* whose major is not 120.
C26_Witness ==
    /\ fpHeaders # NoHeaders
    /\ ProfileOf(fpOut.user_agent) = "Macintosh"
    /\ VersionOf(fpOut.user_agent) = "117.0.0.0"
    /\ fpHeaders["sec-ch-ua-platform"] = "\"macOS\""

===========================================================================
